---- MODULE Spec2Model ----
(***************************************************************************)
(* Model of cmd/gen-books-2/page.go: building the tree of book Pages from  *)
(* the notion pages (extractMeta, extractEmbeddedSourceFiles, getSubPages, *)
(* removeBlocks, bookPageFromNotionPage, bookFromPages).                   *)
(*                                                                         *)
(* A Go string is a sequence of one-character strings, so that TrimSpace,  *)
(* SplitN, ToLower and Split are computed and not assumed.  A path is a    *)
(* sequence of tokens in which "/" is a token of its own, so that          *)
(* TrimPrefix is a real prefix test.  A pointer to a Page is an index into *)
(* the heap `built` (0 is nil).                                            *)
(***************************************************************************)
EXTENDS Integers, Sequences, FiniteSets, TLC

\* ------------------------------------------------------------------ bounds

\* most blocks in all the notion pages of a book together (tree build)
MaxBlocks == 3
\* most blocks of the page handed to extractMeta (meta extraction alone)
MaxMetaBlocks == 3
\* most blocks of the page handed to extractEmbeddedSourceFiles (alone)
MaxEmbedBlocks == 2

\* ----------------------------------------------------------------- strings

Min(S) == CHOOSE x \in S : \A y \in S : x <= y
Max(S) == CHOOSE x \in S : \A y \in S : x >= y

WhiteSpace == {" ", "\t", "\n"}

\* strings.TrimSpace
TrimSpace(s) ==
  LET keep == {i \in 1..Len(s) : s[i] \notin WhiteSpace}
  IN IF keep = {} THEN <<>> ELSE SubSeq(s, Min(keep), Max(keep))

\* strings.SplitN(s, sep, 2), sep one character
SplitN2(s, sep) ==
  LET at == {i \in 1..Len(s) : s[i] = sep}
  IN IF at = {} THEN <<s>>
     ELSE <<SubSeq(s, 1, Min(at) - 1), SubSeq(s, Min(at) + 1, Len(s))>>

RECURSIVE Split(_, _)
\* strings.Split(s, sep), sep one character
Split(s, sep) ==
  LET at == {i \in 1..Len(s) : s[i] = sep}
  IN IF at = {} THEN <<s>>
     ELSE <<SubSeq(s, 1, Min(at) - 1)>> \o Split(SubSeq(s, Min(at) + 1, Len(s)), sep)

LowerOf(c) ==
  CASE c = "I" -> "i"
    [] c = "D" -> "d"
    [] c = "S" -> "s"
    [] c = "O" -> "o"
    [] OTHER -> c

RECURSIVE ToLower(_)
\* strings.ToLower
ToLower(s) == IF s = <<>> THEN <<>> ELSE <<LowerOf(Head(s))>> \o ToLower(Tail(s))

\* strings.HasPrefix / strings.TrimPrefix
HasPrefix(s, p) == Len(s) >= Len(p) /\ SubSeq(s, 1, Len(p)) = p
TrimPrefix(s, p) == IF HasPrefix(s, p) THEN SubSeq(s, Len(p) + 1, Len(s)) ELSE s

\* normalizeID: the identifier without its dashes
normalizeID(id) == SelectSeq(id, LAMBDA c : c # "-")

\* -------------------------------------------------------------------- urls

\* A URL string as the parts url.Parse reads from it: whether it parses, its
\* host, its path and the (decoded) value of its "url" query parameter, which
\* is a URL string again (without a query of its own).
InnerStr(valid, host, path) == [valid |-> valid, host |-> host, path |-> path]
EmptyStr == InnerStr(TRUE, "", <<>>)
UrlStr(valid, host, path, inner) ==
  [valid |-> valid, host |-> host, path |-> path, url |-> inner]
NoUri == UrlStr(TRUE, "", <<>>, EmptyStr)

\* *url.URL; NilURL is the nil pointer url.Parse returns with an error
NilURL == [nil |-> TRUE, Host |-> "", Path |-> <<>>]
\* url.Parse
urlParse(s) ==
  IF s.valid
    THEN [err |-> FALSE, parsed |-> [nil |-> FALSE, Host |-> s.host, Path |-> s.path]]
    ELSE [err |-> TRUE, parsed |-> NilURL]

WidgetPath == <<"/", "gitoembed", "/", "widget">>
RepoPrefix == <<"/", "essentialbooks", "/", "books", "/">>

\* the result of gitoembedToRelativePath: the path, or a nil pointer dereference
RelPath(path) == [panic |-> FALSE, path |-> path]
NilDeref == [panic |-> TRUE, path |-> <<>>]

gitoembedToRelativePath(uri) ==
  LET outer == urlParse(uri)
  IN IF outer.err THEN RelPath(<<>>)
     ELSE IF outer.parsed.Host \notin {"www.onlinetool.io", "onlinetool.io"}
       THEN RelPath(<<>>)
     ELSE IF outer.parsed.Path # WidgetPath THEN RelPath(<<>>)
     ELSE LET nested == urlParse(uri.url)
              parsed == nested.parsed
          IN \* the error of the second url.Parse is not looked at
             IF parsed.nil THEN NilDeref
             ELSE IF parsed.Host # "github.com" THEN RelPath(<<>>)
             ELSE LET path == TrimPrefix(parsed.Path, RepoPrefix)
                  IN IF path = parsed.Path THEN RelPath(<<>>)
                     ELSE RelPath(TrimPrefix(TrimPrefix(TrimPrefix(path,
                              <<"blob", "/">>), <<"master", "/">>), <<"notion", "/">>))

\* ------------------------------------------------------------ file system

\* os.Getwd
Wd == <<"/", "wd">>

\* filepath.Clean, as far as these paths need it: no doubled and no trailing "/"
RECURSIVE Clean(_)
Clean(path) ==
  IF Len(path) <= 1 THEN path
  ELSE IF path[Len(path)] = "/" THEN Clean(SubSeq(path, 1, Len(path) - 1))
  ELSE IF path[1] = "/" /\ path[2] = "/" THEN Clean(Tail(path))
  ELSE <<Head(path)>> \o Clean(Tail(path))

\* filepath.Join(a, b)
Join(a, b) == Clean(a \o <<"/">> \o b)

\* filepath.Base
Base(path) ==
  LET c == Clean(path)
  IN IF c = <<>> THEN <<".">> ELSE <<c[Len(c)]>>

\* the files on disk below the working directory
Files == {Wd \o <<"/", "books", "/", "go", "/", "a.go">>}

\* readFilteredSourceFile: the filtered lines of the file, or an error
readFilteredSourceFile(path) ==
  IF path \in Files THEN [err |-> FALSE, lines |-> <<"package main">>]
  ELSE [err |-> TRUE, lines |-> <<>>]

\* ------------------------------------------------------------------ blocks

\* notionapi.InlineBlock, and IsPlain: no attribute set on the run
Inline(text, attrs) == [Text |-> text, AttrFlags |-> attrs]
IsPlain(inline) == inline.AttrFlags = 0

\* notionapi.Block
Block(type, id, inlines, src) ==
  [Type |-> type, ID |-> id, InlineContent |-> inlines, DisplaySource |-> src]
\* the nil *Block extractMeta leaves where a directive was
NilBlock == Block("nil", <<>>, <<>>, NoUri)

TextBlock(id, text) == Block("text", id, <<Inline(text, 0)>>, NoUri)
EmbedBlock(id, uri) == Block("embed", id, <<>>, uri)
\* a page block carries the identifier of the page it links to
PageBlock(id) == Block("page", id, <<>>, NoUri)

\* ------------------------------------------------------------------- pages

\* EmbeddedSourceFile
SourceFile(uri, name, path, lines, exists) ==
  [EmbedURL |-> uri, FileName |-> name, Path |-> path, Lines |-> lines,
   FileExists |-> exists]

\* &Page{} with NotionPage and Title set (bookPageFromNotionPage, first lines)
NewPage(id, title) ==
  [NotionPage |-> id, Title |-> title, Parent |-> 0, NotionID |-> <<>>,
   ID |-> <<>>, StackOverflowID |-> <<>>, Search |-> <<>>,
   SourceFiles |-> <<>>, Pages |-> <<>>]

\* a panic: its kind and the two values its message names
Panic(kind, a, b) == [kind |-> kind, a |-> a, b |-> b]
NoPanic == Panic("none", <<>>, <<>>)
\* panicIf(cond, format, a, b): panics when cond holds
panicIf(cond, kind, a, b) == IF cond THEN Panic(kind, a, b) ELSE NoPanic

\* ----------------------------------------------------------- meta values

\* *MetaValue; NilMeta is the nil pointer
MetaValue(key, value) == [nil |-> FALSE, deref |-> FALSE, Key |-> key, Value |-> value]
NilMeta == [nil |-> TRUE, deref |-> FALSE, Key |-> <<>>, Value |-> <<>>]
\* block.Type of a nil block: a nil pointer dereference
MetaDeref == [nil |-> TRUE, deref |-> TRUE, Key |-> <<>>, Value |-> <<>>]

\* a bug: the text without ":" taken as a key with an empty value
extractMetaValueFromBlock_noColon(block) ==
  IF block = NilBlock THEN MetaDeref
  ELSE IF block.Type # "text" THEN NilMeta
  ELSE IF Len(block.InlineContent) # 1 THEN NilMeta
  ELSE LET inline == block.InlineContent[1]
       IN IF ~IsPlain(inline) THEN NilMeta
          ELSE LET s == TrimSpace(inline.Text)
               IN IF Len(s) < 4 THEN NilMeta
                  ELSE IF s[1] # "$" THEN NilMeta
                  ELSE LET parts == SplitN2(s, ":")
                       IN IF Len(parts) # 2
                            THEN MetaValue(ToLower(TrimSpace(parts[1])), <<>>)
                            ELSE MetaValue(ToLower(TrimSpace(parts[1])),
                                           TrimSpace(parts[2]))

extractMetaValueFromBlock(block) ==
  IF block = NilBlock THEN MetaDeref
  ELSE IF block.Type # "text" THEN NilMeta
  ELSE IF Len(block.InlineContent) # 1 THEN NilMeta
  ELSE LET inline == block.InlineContent[1]
       IN IF ~IsPlain(inline) THEN NilMeta
          ELSE LET s == TrimSpace(inline.Text)
               IN IF Len(s) < 4 THEN NilMeta
                  ELSE IF s[1] # "$" THEN NilMeta
                  ELSE LET parts == SplitN2(s, ":")
                       IN IF Len(parts) # 2 THEN NilMeta
                          ELSE MetaValue(ToLower(TrimSpace(parts[1])),
                                         TrimSpace(parts[2]))

\* ------------------------------------------------------------ removeBlocks

RECURSIVE compact(_, _, _, _)
\* the loops of removeBlocks: the elements whose index is not in toRemove are
\* moved to the front of the same array; i is the index read, n the number
\* written so far
compact(arr, toRemove, i, n) ==
  IF i > Len(arr) THEN [arr |-> arr, n |-> n]
  ELSE IF i \in toRemove THEN compact(arr, toRemove, i + 1, n)
  ELSE compact([arr EXCEPT ![n + 1] = arr[i]], toRemove, i + 1, n + 1)

\* a bug: nothing is removed
removeBlocks_keepAll(root, toRemove) == root

\* a bug: Content is not cut to the blocks that were kept
removeBlocks_noCut(root, toRemove) ==
  IF toRemove = {} THEN root
  ELSE LET blocks == compact(root.Content, toRemove, 1, 0)
           ids == compact(root.ContentIDs, toRemove, 1, 0)
       IN [root EXCEPT !.Content = blocks.arr, !.ContentIDs = ids.arr]

\* page.Root after removeBlocks(page, toRemove)
removeBlocks(root, toRemove) ==
  IF toRemove = {} THEN root
  ELSE LET blocks == compact(root.Content, toRemove, 1, 0)
           ids == compact(root.ContentIDs, toRemove, 1, 0)
       IN [root EXCEPT !.Content = SubSeq(blocks.arr, 1, blocks.n),
                       !.ContentIDs = ids.arr]

\* ------------------------------------------------------------- extractMeta

KeyId == <<"$", "i", "d">>
KeySoid == <<"$", "s", "o", "i", "d">>
KeySearch == <<"$", "s", "e", "a", "r", "c", "h">>
KeyScore == <<"$", "s", "c", "o", "r", "e">>

\* p.Search[i] = strings.TrimSpace(s) for every element
TrimAll(ss) == [i \in DOMAIN ss |-> TrimSpace(ss[i])]

\* the Page after the switch on mv.Key; the default case panics
applyMeta(p, mv) ==
  CASE mv.Key = KeyId -> [p EXCEPT !.ID = mv.Value]
    [] mv.Key = KeySoid -> [p EXCEPT !.StackOverflowID = mv.Value]
    [] mv.Key = KeySearch -> [p EXCEPT !.Search = TrimAll(Split(mv.Value, ","))]
    [] OTHER -> p
\* a bug: the default case ignores the key
knownKey_any(key) == TRUE
knownKey(key) == key \in {KeyId, KeySoid, KeySearch, KeyScore}

RECURSIVE extractMetaLoop(_, _, _, _, _)
\* the loop of extractMeta from index idx on: root is page.Root, toRemove
\* the indexes marked so far, p the Page.  The range reads every block from
\* the array the loop itself writes nil into.
extractMetaLoop(idx, root, toRemove, p, pageID) ==
  IF idx > Len(root.Content)
    THEN [panic |-> NoPanic, root |-> root, toRemove |-> toRemove, p |-> p]
  ELSE LET mv == extractMetaValueFromBlock(root.Content[idx])
       IN IF mv.deref
            THEN [panic |-> Panic("nil dereference", <<>>, <<>>), root |-> root,
                  toRemove |-> toRemove, p |-> p]
          ELSE IF mv.nil
            THEN extractMetaLoop(idx + 1, root, toRemove, p, pageID)
          ELSE LET marked == toRemove \cup {idx}
                   nilled == [root EXCEPT !.Content[idx] = NilBlock]
                   failed == panicIf(~knownKey(mv.Key), "unknown key", mv.Key,
                                     normalizeID(pageID))
               IN IF failed # NoPanic
                    THEN [panic |-> failed, root |-> nilled, toRemove |-> marked,
                          p |-> p]
                    ELSE extractMetaLoop(idx + 1, nilled, marked,
                                         applyMeta(p, mv), pageID)

\* extractMeta(p) on the notion page `page`: the panic if any, page.Root and p
extractMeta(page, p) ==
  LET done == extractMetaLoop(1, page.Root, {}, p, page.ID)
  IN IF done.panic # NoPanic
       THEN [panic |-> done.panic, root |-> done.root, p |-> done.p,
             toRemove |-> done.toRemove]
       ELSE [panic |-> NoPanic, root |-> removeBlocks(done.root, done.toRemove),
             p |-> done.p, toRemove |-> done.toRemove]

\* ---------------------------------------------- extractEmbeddedSourceFiles

\* the EmbeddedSourceFile of one embed block, as the loop body leaves it
embedFile(uri, relativePath) ==
  IF relativePath = <<>> THEN SourceFile(uri, <<>>, <<>>, <<>>, FALSE)
  ELSE LET path == Join(Wd, relativePath)
           read == readFilteredSourceFile(path)
       IN SourceFile(uri, Base(relativePath), path, read.lines, ~read.err)

RECURSIVE extractEmbeddedLoop(_, _, _)
extractEmbeddedLoop(idx, content, p) ==
  IF idx > Len(content) THEN [panic |-> NoPanic, p |-> p]
  ELSE LET block == content[idx]
       IN IF block = NilBlock
            THEN [panic |-> Panic("nil dereference", <<>>, <<>>), p |-> p]
          ELSE IF block.Type # "embed"
            THEN extractEmbeddedLoop(idx + 1, content, p)
          ELSE LET uri == block.DisplaySource
                   rel == gitoembedToRelativePath(uri)
                   \* f is appended before the uri is decoded
                   appended == [p EXCEPT !.SourceFiles =
                                  Append(@, SourceFile(uri, <<>>, <<>>, <<>>, FALSE))]
               IN IF rel.panic
                    THEN [panic |-> Panic("nil dereference", <<>>, <<>>),
                          p |-> appended]
                    ELSE extractEmbeddedLoop(idx + 1, content,
                           [p EXCEPT !.SourceFiles = Append(@, embedFile(uri, rel.path))])

\* a bug: only the embeds that resolve to a path are recorded
extractEmbeddedSourceFiles_resolvedOnly(page, p) ==
  LET r == extractEmbeddedLoop(1, page.Root.Content, p)
  IN [r EXCEPT !.p.SourceFiles = SelectSeq(@, LAMBDA f : f.Path # <<>>)]

extractEmbeddedSourceFiles(page, p) == extractEmbeddedLoop(1, page.Root.Content, p)

\* ------------------------------------------------------------- getSubPages

RECURSIVE getSubPagesLoop(_, _, _, _)
\* the loop of getSubPages: res is the list of sub pages found so far
getSubPagesLoop(idx, content, mapped, acc) ==
  IF idx > Len(content) THEN acc
  ELSE LET block == content[idx]
       IN IF block.Type # "page"
            THEN getSubPagesLoop(idx + 1, content, mapped, acc)
          ELSE LET id == normalizeID(block.ID)
                   failed == panicIf(id \notin mapped, "no sub page", id, <<>>)
                   marked == [acc EXCEPT !.toRemove = @ \cup {idx}]
               IN IF failed # NoPanic THEN [marked EXCEPT !.panic = failed]
                  ELSE getSubPagesLoop(idx + 1, content, mapped,
                                       [marked EXCEPT !.res = Append(@, id)])

RECURSIVE Dedup(_)
Dedup(ids) ==
  IF ids = <<>> THEN <<>>
  ELSE LET front == Dedup(SubSeq(ids, 1, Len(ids) - 1))
       IN IF \E i \in DOMAIN front : front[i] = ids[Len(ids)] THEN front
          ELSE Append(front, ids[Len(ids)])

\* a bug: a page that several page blocks name is returned once
getSubPages_once(page, mapped) ==
  LET done == getSubPagesLoop(1, page.Root.Content, mapped,
                              [panic |-> NoPanic, res |-> <<>>, toRemove |-> {}])
  IN IF done.panic # NoPanic
       THEN [panic |-> done.panic, res |-> done.res, root |-> page.Root,
             toRemove |-> done.toRemove]
       ELSE [panic |-> NoPanic, res |-> Dedup(done.res),
             root |-> removeBlocks(page.Root, done.toRemove),
             toRemove |-> done.toRemove]

\* a bug: the page blocks are left in page.Root
getSubPages_keepBlocks(page, mapped) ==
  LET done == getSubPagesLoop(1, page.Root.Content, mapped,
                              [panic |-> NoPanic, res |-> <<>>, toRemove |-> {}])
  IN [panic |-> done.panic, res |-> done.res, root |-> page.Root,
      toRemove |-> done.toRemove]

\* getSubPages(page, pageIDToPage): the panic if any, the sub pages and
\* page.Root; `mapped` is the set of identifiers pageIDToPage has a page for
getSubPages(page, mapped) ==
  LET done == getSubPagesLoop(1, page.Root.Content, mapped,
                              [panic |-> NoPanic, res |-> <<>>, toRemove |-> {}])
  IN IF done.panic # NoPanic
       THEN [panic |-> done.panic, res |-> done.res, root |-> page.Root,
             toRemove |-> done.toRemove]
       ELSE [panic |-> NoPanic, res |-> done.res,
             root |-> removeBlocks(page.Root, done.toRemove),
             toRemove |-> done.toRemove]

\* ------------------------------------------------------------------ inputs

\* the identifiers of the notion pages of the book, in normalized form
N1 == <<"n", "1">>
N2 == <<"n", "2">>
N3 == <<"n", "3">>
\* an identifier pageIDToPage has no page for
N9 == <<"n", "9">>
NodeSeq == <<N1, N2, N3>>
NodeIDs == {NodeSeq[i] : i \in DOMAIN NodeSeq}
\* book.NotionStartPageID
StartPageID == N1

\* an identifier as notion writes it, with a dash
RawID(id) == <<id[1], "-", id[2]>>
TitleOf(id) == <<"T">> \o id

GoodPath ==
  <<"/", "essentialbooks", "/", "books", "/", "blob", "/", "master", "/",
    "books", "/", "go", "/", "a.go">>
\* resolves to books/go/a.go, which is on disk
UriGood == UrlStr(TRUE, "www.onlinetool.io", WidgetPath,
                  InnerStr(TRUE, "github.com", GoodPath))
\* resolves to books/go/b.go (branch notion), which is not on disk
UriNoFile == UrlStr(TRUE, "onlinetool.io", WidgetPath,
                    InnerStr(TRUE, "github.com",
                      <<"/", "essentialbooks", "/", "books", "/", "blob", "/",
                        "notion", "/", "books", "/", "go", "/", "b.go">>))
UriOuterBad == UrlStr(FALSE, "", <<>>, EmptyStr)
UriHost == UrlStr(TRUE, "example.com", WidgetPath,
                  InnerStr(TRUE, "github.com", GoodPath))
UriPath == UrlStr(TRUE, "onlinetool.io", <<"/", "gitoembed">>,
                  InnerStr(TRUE, "github.com", GoodPath))
UriNoParam == UrlStr(TRUE, "onlinetool.io", WidgetPath, EmptyStr)
UriNestedBad == UrlStr(TRUE, "onlinetool.io", WidgetPath, InnerStr(FALSE, "", <<>>))
UriNestedHost == UrlStr(TRUE, "onlinetool.io", WidgetPath,
                        InnerStr(TRUE, "gitlab.com", GoodPath))
UriNestedPrefix == UrlStr(TRUE, "onlinetool.io", WidgetPath,
                          InnerStr(TRUE, "github.com",
                            <<"/", "essentialbooks", "/", "books">>))

\* the texts of the text blocks
TxtId == <<"$", "I", "d", ":", " ", "5", "9">>
TxtIdPadded == <<" ", "$", "i", "d", ":", "7", "\n">>
TxtSoid == <<"$", "S", "O", "I", "D", " ", ":", "4">>
TxtSearch == <<"$", "s", "e", "a", "r", "c", "h", ":", " ", "a", ",", " ", "b", " ", ",", "c">>
TxtScore == <<"$", "s", "c", "o", "r", "e", ":", "1">>
TxtBogus == <<"$", "b", "o", "g", "u", "s", ":", " ", "x">>
TxtNoColon == <<"$", "a", "b", "c">>
TxtShort == <<"$", "a", ":">>
TxtPlain == <<"h", "i", ":", " ", "$", "x">>

\* the blocks a page of the tree build is made of
TreeBlocks ==
  {PageBlock(RawID(id)) : id \in NodeIDs \cup {N9}}
    \cup {TextBlock(<<"m", "-", "1">>, TxtId),
          EmbedBlock(<<"e", "-", "1">>, UriGood),
          EmbedBlock(<<"e", "-", "2">>, UriHost)}

\* the blocks of the page handed to extractMeta alone
MetaBlocks ==
  {TextBlock(<<"t", "-", "1">>, TxtId), TextBlock(<<"t", "-", "2">>, TxtIdPadded),
   TextBlock(<<"t", "-", "3">>, TxtSoid), TextBlock(<<"t", "-", "4">>, TxtSearch),
   TextBlock(<<"t", "-", "5">>, TxtScore), TextBlock(<<"t", "-", "6">>, TxtBogus),
   TextBlock(<<"t", "-", "7">>, TxtNoColon), TextBlock(<<"t", "-", "8">>, TxtShort),
   TextBlock(<<"t", "-", "9">>, TxtPlain),
   \* a bold run, two runs, and a header: the text alone would be a directive
   Block("text", <<"t", "-", "a">>, <<Inline(TxtId, 1)>>, NoUri),
   Block("text", <<"t", "-", "b">>, <<Inline(TxtId, 0), Inline(TxtPlain, 0)>>, NoUri),
   Block("header", <<"t", "-", "c">>, <<Inline(TxtId, 0)>>, NoUri)}

\* the blocks of the page handed to extractEmbeddedSourceFiles alone
EmbedBlocks ==
  {EmbedBlock(<<"e", "-", "1">>, UriGood), EmbedBlock(<<"e", "-", "2">>, UriHost),
   EmbedBlock(<<"e", "-", "3">>, UriNoFile), EmbedBlock(<<"e", "-", "4">>, UriOuterBad),
   EmbedBlock(<<"e", "-", "5">>, UriPath), EmbedBlock(<<"e", "-", "6">>, UriNoParam),
   EmbedBlock(<<"e", "-", "7">>, UriNestedBad),
   EmbedBlock(<<"e", "-", "8">>, UriNestedHost),
   EmbedBlock(<<"e", "-", "9">>, UriNestedPrefix),
   TextBlock(<<"t", "-", "9">>, TxtPlain)}

SeqsUpTo(S, n) == UNION {[1..m -> S] : m \in 0..n}

RECURSIVE Contents(_, _)
\* the block sequences of k pages that hold at most `budget` blocks together
Contents(k, budget) ==
  IF k = 0 THEN {<<>>}
  ELSE UNION {{<<c>> \o rest : rest \in Contents(k - 1, budget - Len(c))} :
                c \in SeqsUpTo(TreeBlocks, budget)}

IndexOf(id) == CHOOSE i \in DOMAIN NodeSeq : NodeSeq[i] = id

\* a notionapi.Page: ContentIDs holds the identifier of every block of Content
NotionPage(id, type, content) ==
  [ID |-> RawID(id),
   Root |-> [Type |-> type, Title |-> TitleOf(id), Content |-> content,
             ContentIDs |-> [i \in DOMAIN content |-> content[i].ID]]]

\* ------------------------------------------------------------------- state

VARIABLES
  pageIDToPage,  \* book.pageIDToPage: normalized identifier -> notionapi.Page
  book,          \* book.Title and book.RootPage (a heap index, 0 is nil)
  built,         \* the heap of Pages, in the order they were allocated
  stack,         \* the frames of bookPageFromNotionPage, the innermost last
  status,        \* "start", "running", "done" or "panic"
  panicMsg,      \* the panic that ended the run
  visits,        \* how often bookPageFromNotionPage was entered, per page
  last,          \* the last call of removeBlocks: page.Root before, toRemove
  runs,          \* how often the function under test has run (run alone)
  prev,          \* page.Root and the Page before the last run (run alone)
  initial        \* pageIDToPage as it was at the start

vars == <<pageIDToPage, book, built, stack, status, panicMsg, visits, last,
          runs, prev, initial>>

NoRoot == [Type |-> "", Title |-> <<>>, Content |-> <<>>, ContentIDs |-> <<>>]
NoCall == [fn |-> "none", page |-> <<>>, before |-> NoRoot, toRemove |-> {}]
NoPrev == [root |-> NoRoot, p |-> NewPage(<<>>, <<>>)]

Frame(id, res, root) ==
  [page |-> id, res |-> res, pc |-> "meta", subPages |-> <<>>, next |-> 1,
   entry |-> root]

Top == stack[Len(stack)]
SetTop(f) == [stack EXCEPT ![Len(stack)] = f]

\* the Pages one build can allocate: the start page and one per page block
MaxPages == MaxBlocks + 1

Init ==
  /\ \E cs \in Contents(Len(NodeSeq), MaxBlocks) :
       \E type \in {"page", "collection_view"} :
         pageIDToPage = [id \in NodeIDs |->
            NotionPage(id, IF id = StartPageID THEN type ELSE "page",
                       cs[IndexOf(id)])]
  /\ initial = pageIDToPage
  /\ book = [Title |-> <<>>, RootPage |-> 0]
  /\ built = <<>>
  /\ stack = <<>>
  /\ status = "start"
  /\ panicMsg = NoPanic
  /\ visits = [id \in NodeIDs |-> 0]
  /\ last = NoCall
  /\ runs = 0
  /\ prev = NoPrev

\* where the build stands: the innermost bookPageFromNotionPage is at `pc`
AtPc(pc) == status = "running" /\ stack # <<>> /\ Top.pc = pc
\* the loop over subPages has a sub page left, and the heap has room for its Page
CanCall == AtPc("loop") /\ Top.next <= Len(Top.subPages) /\ Len(built) < MaxPages + 1
\* the loop over subPages is over
CanReturn == AtPc("loop") /\ Top.next > Len(Top.subPages)
\* some step of the build can be taken
CanStep ==
  status = "start" \/ AtPc("meta") \/ AtPc("embed") \/ AtPc("sub") \/ CanCall \/ CanReturn

\* the call bookPageFromNotionPage(page, pageIDToPage): a new frame and res
Enter(id, frames) ==
  /\ built' = Append(built, NewPage(id, pageIDToPage[id].Root.Title))
  /\ stack' = Append(frames, Frame(id, Len(built) + 1, pageIDToPage[id].Root))
  /\ visits' = [visits EXCEPT ![id] = @ + 1]

Abort(p) ==
  /\ status' = "panic"
  /\ panicMsg' = p

\* bookFromPages, up to the call of bookPageFromNotionPage
BookFromPages ==
  /\ status = "start"
  /\ LET page == pageIDToPage[StartPageID]
         failed == panicIf(page.Root.Type # "page", "start block type",
                           <<page.Root.Type>>, <<"page">>)
     IN IF failed # NoPanic
          THEN /\ Abort(failed)
               /\ UNCHANGED <<book, built, stack, visits>>
          ELSE /\ book' = [book EXCEPT !.Title = page.Root.Title]
               /\ Enter(StartPageID, stack)
               /\ status' = "running"
               /\ UNCHANGED panicMsg
  /\ UNCHANGED <<pageIDToPage, last, runs, prev, initial>>

\* bookPageFromNotionPage: extractMeta(res)
ExtractMeta ==
  /\ AtPc("meta")
  /\ LET r == extractMeta(pageIDToPage[Top.page], built[Top.res])
     IN /\ pageIDToPage' = [pageIDToPage EXCEPT ![Top.page].Root = r.root]
        /\ built' = [built EXCEPT ![Top.res] = r.p]
        /\ IF r.panic # NoPanic
             THEN Abort(r.panic) /\ last' = NoCall /\ UNCHANGED stack
             ELSE /\ stack' = SetTop([Top EXCEPT !.pc = "embed"])
                  /\ last' = [fn |-> "extractMeta", page |-> Top.page,
                              before |-> pageIDToPage[Top.page].Root,
                              toRemove |-> r.toRemove]
                  /\ UNCHANGED <<status, panicMsg>>
  /\ UNCHANGED <<book, visits, runs, prev, initial>>

\* bookPageFromNotionPage: extractEmbeddedSourceFiles(res)
ExtractEmbeddedSourceFiles ==
  /\ AtPc("embed")
  /\ LET r == extractEmbeddedSourceFiles(pageIDToPage[Top.page], built[Top.res])
     IN /\ built' = [built EXCEPT ![Top.res] = r.p]
        /\ IF r.panic # NoPanic
             THEN Abort(r.panic) /\ UNCHANGED stack
             ELSE /\ stack' = SetTop([Top EXCEPT !.pc = "sub"])
                  /\ UNCHANGED <<status, panicMsg>>
  /\ UNCHANGED <<pageIDToPage, book, visits, last, runs, prev, initial>>

\* bookPageFromNotionPage: subPages := getSubPages(page, pageIDToPage)
GetSubPages ==
  /\ AtPc("sub")
  /\ LET r == getSubPages(pageIDToPage[Top.page], DOMAIN pageIDToPage)
     IN /\ pageIDToPage' = [pageIDToPage EXCEPT ![Top.page].Root = r.root]
        /\ IF r.panic # NoPanic
             THEN Abort(r.panic) /\ UNCHANGED <<stack, last>>
             ELSE /\ stack' = SetTop([Top EXCEPT !.pc = "loop", !.subPages = r.res])
                  /\ last' = [fn |-> "getSubPages", page |-> Top.page,
                              before |-> pageIDToPage[Top.page].Root,
                              toRemove |-> r.toRemove]
                  /\ UNCHANGED <<status, panicMsg>>
  /\ UNCHANGED <<book, built, visits, runs, prev, initial>>

\* the loop over subPages: the recursive call for the next sub page
CallSubPage ==
  /\ CanCall
  /\ Enter(Top.subPages[Top.next], stack)
  /\ UNCHANGED <<pageIDToPage, book, status, panicMsg, last, runs, prev, initial>>

\* return res to the calling bookPageFromNotionPage, which appends it to its
\* own res.Pages
ReturnSubPage ==
  /\ CanReturn /\ Len(stack) > 1
  /\ LET caller == stack[Len(stack) - 1]
     IN /\ built' = [built EXCEPT ![caller.res].Pages = Append(@, Top.res)]
        /\ stack' = Append(SubSeq(stack, 1, Len(stack) - 2),
                           [caller EXCEPT !.next = @ + 1])
  /\ UNCHANGED <<pageIDToPage, book, status, panicMsg, visits, last, runs, prev,
                 initial>>

\* return res to bookFromPages, which stores it in book.RootPage
ReturnRootPage ==
  /\ CanReturn /\ Len(stack) = 1
  /\ book' = [book EXCEPT !.RootPage = Top.res]
  /\ stack' = <<>>
  /\ status' = "done"
  /\ UNCHANGED <<pageIDToPage, built, panicMsg, visits, last, runs, prev, initial>>

Next ==
  \/ BookFromPages
  \/ ExtractMeta
  \/ ExtractEmbeddedSourceFiles
  \/ GetSubPages
  \/ CallSubPage
  \/ ReturnSubPage
  \/ ReturnRootPage

Spec == Init /\ [][Next]_vars

\* ------------------------------------------------- extractMeta run alone

InitAlone(blocks, n) ==
  /\ \E c \in SeqsUpTo(blocks, n) :
       pageIDToPage = [id \in {N1} |-> NotionPage(N1, "page", c)]
  /\ initial = pageIDToPage
  /\ book = [Title |-> <<>>, RootPage |-> 0]
  /\ built = <<NewPage(N1, TitleOf(N1))>>
  /\ stack = <<>>
  /\ status = "running"
  /\ panicMsg = NoPanic
  /\ visits = [id \in NodeIDs |-> 0]
  /\ last = NoCall
  /\ runs = 0
  /\ prev = NoPrev

InitMeta == InitAlone(MetaBlocks, MaxMetaBlocks)

\* extractMeta(p) on the Page of N1, a first and a second time
RunExtractMeta ==
  /\ status = "running" /\ stack = <<>> /\ runs < 2
  /\ LET r == extractMeta(pageIDToPage[N1], built[1])
     IN /\ pageIDToPage' = [pageIDToPage EXCEPT ![N1].Root = r.root]
        /\ built' = [built EXCEPT ![1] = r.p]
        /\ IF r.panic # NoPanic
             THEN Abort(r.panic) /\ last' = NoCall
             ELSE /\ last' = [fn |-> "extractMeta", page |-> N1,
                              before |-> pageIDToPage[N1].Root,
                              toRemove |-> r.toRemove]
                  /\ UNCHANGED <<status, panicMsg>>
  /\ prev' = [root |-> pageIDToPage[N1].Root, p |-> built[1]]
  /\ runs' = runs + 1
  /\ UNCHANGED <<book, stack, visits, initial>>

SpecMeta == InitMeta /\ [][RunExtractMeta]_vars

\* ---------------------------------- extractEmbeddedSourceFiles run alone

InitEmbed == InitAlone(EmbedBlocks, MaxEmbedBlocks)

\* extractEmbeddedSourceFiles(p) on the Page of N1
RunExtractEmbedded ==
  /\ status = "running" /\ stack = <<>> /\ runs < 1
  /\ LET r == extractEmbeddedSourceFiles(pageIDToPage[N1], built[1])
     IN /\ built' = [built EXCEPT ![1] = r.p]
        /\ IF r.panic # NoPanic
             THEN Abort(r.panic)
             ELSE UNCHANGED <<status, panicMsg>>
  /\ prev' = [root |-> pageIDToPage[N1].Root, p |-> built[1]]
  /\ runs' = runs + 1
  /\ UNCHANGED <<pageIDToPage, book, stack, visits, last, initial>>

SpecEmbed == InitEmbed /\ [][RunExtractEmbedded]_vars

\* ------------------------------------------------------------ properties

Range(s) == {s[i] : i \in DOMAIN s}
IsLink(b) == b.Type = "page"
IsEmbed(b) == b.Type = "embed"
NotLink(b) == ~IsLink(b)

\* the frame on top of the stack has built its Page and is about to return it
Built(f) == f.pc = "loop" /\ f.next > Len(f.subPages)

\* C1: a Page that bookPageFromNotionPage has built holds one SourceFile per
\* embed block its node had at entry, in block order and resolved or not,
\* and one child per page block the node had at entry, in block order, the
\* i-th child built from the page the i-th page block names; the node keeps
\* no page block.
C1_BuiltPage ==
  (status = "running" /\ stack # <<>> /\ Built(Top)) =>
    LET embeds == SelectSeq(Top.entry.Content, IsEmbed)
        links == SelectSeq(Top.entry.Content, IsLink)
        p == built[Top.res]
    IN /\ Len(p.SourceFiles) = Len(embeds)
       /\ \A i \in DOMAIN embeds : p.SourceFiles[i].EmbedURL = embeds[i].DisplaySource
       /\ Len(p.Pages) = Len(links)
       /\ \A i \in DOMAIN links :
            /\ p.Pages[i] \in DOMAIN built
            /\ RawID(built[p.Pages[i]].NotionPage) = links[i].ID
       /\ \A b \in Range(pageIDToPage[Top.page].Root.Content) : ~IsLink(b)

\* a Page built from a node with an embed that does not resolve between two
\* page blocks that name different pages
C1_Witness ==
  /\ status = "running" /\ stack # <<>> /\ Built(Top)
  /\ Len(Top.entry.Content) = 3
  /\ IsLink(Top.entry.Content[1]) /\ IsLink(Top.entry.Content[3])
  /\ Top.entry.Content[1].ID # Top.entry.Content[3].ID
  /\ Top.entry.Content[2].DisplaySource = UriHost
  /\ ~built[Top.res].SourceFiles[1].FileExists

\* the indexes of `n` elements that are not in toRemove, in increasing order
RECURSIVE Survivors(_, _, _)
Survivors(i, n, toRemove) ==
  IF i > n THEN <<>>
  ELSE IF i \in toRemove THEN Survivors(i + 1, n, toRemove)
  ELSE <<i>> \o Survivors(i + 1, n, toRemove)

\* C3: after a call of removeBlocks that removes something, ContentIDs is as
\* long as Content and ContentIDs[i] is the identifier that stood beside
\* Content[i] before the call.
C3_IdsInSync ==
  (last.fn # "none" /\ last.toRemove # {}) =>
    LET root == pageIDToPage[last.page].Root
        kept == Survivors(1, Len(last.before.Content), last.toRemove)
    IN /\ Len(root.ContentIDs) = Len(root.Content)
       /\ Len(root.ContentIDs) = Len(kept)
       /\ \A i \in DOMAIN kept : root.ContentIDs[i] = last.before.ContentIDs[kept[i]]

\* C6: in the tree bookFromPages returns, every child of a Page P has P as
\* its Parent and the root Page has none.
C6_ParentOfChildren ==
  status = "done" =>
    /\ built[book.RootPage].Parent = 0
    /\ \A q \in DOMAIN built : \A i \in DOMAIN built[q].Pages :
         built[built[q].Pages[i]].Parent = q

\* C8: after getSubPages the block sequence is shorter by the number of page
\* blocks it held, and what remains are the other blocks in their order.
C8_SubPagesRemoved ==
  last.fn = "getSubPages" =>
    LET before == last.before.Content
        now == pageIDToPage[last.page].Root.Content
    IN /\ Len(now) = Len(before) - Len(SelectSeq(before, IsLink))
       /\ now = SelectSeq(before, NotLink)

\* getSubPages has taken the page block from between two different blocks
C8_Witness ==
  /\ last.fn = "getSubPages"
  /\ Len(last.before.Content) = 3
  /\ IsLink(last.before.Content[2])
  /\ ~IsLink(last.before.Content[1]) /\ ~IsLink(last.before.Content[3])
  /\ last.before.Content[1] # last.before.Content[3]

\* the pages a page block of `content` names
LinkTargets(content) == {normalizeID(b.ID) : b \in {x \in Range(content) : IsLink(x)}}

RECURSIVE Reach(_, _)
\* the pages reachable from those of S through the page blocks of mapping m
Reach(S, m) ==
  LET more == S \cup UNION {LinkTargets(m[id].Root.Content) \cap DOMAIN m : id \in S}
  IN IF more = S THEN S ELSE Reach(more, m)

\* the number of page blocks of page `from` that name `id`
LinksTo(m, from, id) ==
  Len(SelectSeq(m[from].Root.Content, LAMBDA b : IsLink(b) /\ normalizeID(b.ID) = id))

RECURSIVE Sum(_, _)
Sum(f, S) == IF S = {} THEN 0 ELSE LET x == CHOOSE y \in S : TRUE
                                    IN f[x] + Sum(f, S \ {x})

\* C7 as claimed: when the build is done bookPageFromNotionPage has been
\* entered exactly once for every page reachable from the start page.
C7_VisitedOnce ==
  status = "done" => \A id \in Reach({StartPageID}, initial) : visits[id] = 1

\* C7 as amended: bookPageFromNotionPage is entered once for the start page
\* and once more for every page block, of a reachable page, that names the
\* page; pages that are not reachable are not entered.
C7_VisitedPerLink ==
  status = "done" =>
    LET reached == Reach({StartPageID}, initial)
    IN \A id \in NodeIDs :
         visits[id] = (IF id = StartPageID THEN 1 ELSE 0)
                        + Sum([from \in reached |-> LinksTo(initial, from, id)], reached)

\* a finished build in which a page was entered twice and another once
C7_Witness ==
  /\ status = "done"
  /\ \E id \in NodeIDs : visits[id] = 2
  /\ \E id \in NodeIDs \ {StartPageID} : visits[id] = 1

AllResolve(m) == \A id \in DOMAIN m : LinkTargets(m[id].Root.Content) \subseteq DOMAIN m
TotalLinks(m) ==
  Sum([id \in DOMAIN m |-> Len(SelectSeq(m[id].Root.Content, IsLink))], DOMAIN m)
Finished == status \in {"done", "panic"}

\* what is left to do of a frame: its own steps, its return, and five steps
\* (the call, three extractions, the return) for every sub page not called yet
StageLeft(pc) == CASE pc = "meta" -> 3 [] pc = "embed" -> 2 [] pc = "sub" -> 1
                   [] OTHER -> 0
FrameRank(k) ==
  LET f == stack[k]
      waiting == Len(f.subPages) - f.next + 1 - (IF k < Len(stack) THEN 1 ELSE 0)
  IN StageLeft(f.pc) + 1 + 5 * waiting
\* a natural number that every step of the build makes smaller
Rank ==
  IF Finished THEN 0
  ELSE 5 * TotalLinks(pageIDToPage)
         + (IF status = "start" THEN 6
            ELSE Sum([k \in DOMAIN stack |-> FrameRank(k)], DOMAIN stack))

\* C10: when every page block resolves the build ends, cycles and self links
\* included: it is never stuck before it has returned or panicked, and every
\* step, which removes the page blocks of the visited page before recursing,
\* lowers the natural number Rank; and it never allocates more Pages than 1
\* plus the number of page blocks the pages held at the start.
C10_Terminates ==
  /\ [](AllResolve(initial) => (Finished \/ CanStep))
  /\ [][AllResolve(initial) => (Rank \in Nat /\ Rank' \in Nat /\ Rank' < Rank)]_vars
  /\ [](AllResolve(initial) => Len(built) <= 1 + TotalLinks(initial))

\* a finished build of pages that link to each other in a cycle, which has
\* allocated as many Pages as the bound allows
C10_Witness ==
  /\ status = "done"
  /\ N2 \in LinkTargets(initial[StartPageID].Root.Content)
  /\ StartPageID \in LinkTargets(initial[N2].Root.Content)
  /\ Len(built) = 1 + TotalLinks(initial)

\* the directive predicate of the meta extractor: a text block with exactly
\* one inline run that is plain and whose trimmed text has at least 4
\* characters and starts with "$"
DollarBlock(b) ==
  /\ b.Type = "text"
  /\ Len(b.InlineContent) = 1
  /\ b.InlineContent[1].AttrFlags = 0
  /\ LET s == TrimSpace(b.InlineContent[1].Text) IN Len(s) >= 4 /\ s[1] = "$"
HasColon(b) == ":" \in Range(b.InlineContent[1].Text)
NoColonBlock(b) == DollarBlock(b) /\ ~HasColon(b)
DirectiveBlock(b) == DollarBlock(b) /\ HasColon(b)

\* extractMeta alone: the block sequence and the Page it was last run on, and
\* what it left
EntryContent == prev.root.Content
NowContent == pageIDToPage[N1].Root.Content

\* C2 as claimed: after extractMeta has completed no remaining block
\* satisfies the directive predicate, and a second run changes neither the
\* block sequence nor ID, StackOverflowID and Search.
C2_NoDollarBlockLeft ==
  /\ (runs >= 1 /\ status = "running") =>
       \A b \in Range(NowContent) : ~DollarBlock(b)
  /\ (runs = 2) =>
       /\ status = "running"
       /\ NowContent = EntryContent
       /\ built[1].ID = prev.p.ID
       /\ built[1].StackOverflowID = prev.p.StackOverflowID
       /\ built[1].Search = prev.p.Search

\* C2 as amended: after extractMeta has completed no remaining block
\* satisfies the directive predicate and has a ":" in its text, and a second
\* run completes and changes neither the block sequence nor ID,
\* StackOverflowID and Search.
C2_NoDirectiveLeft ==
  /\ (runs >= 1 /\ status = "running") =>
       \A b \in Range(NowContent) : ~DirectiveBlock(b)
  /\ (runs = 2) =>
       /\ status = "running"
       /\ NowContent = EntryContent
       /\ built[1].ID = prev.p.ID
       /\ built[1].StackOverflowID = prev.p.StackOverflowID
       /\ built[1].Search = prev.p.Search

\* a second run after a first one that removed two directives and set ID and
\* Search from them
C2_Witness ==
  /\ runs = 2 /\ status = "running"
  /\ Len(initial[N1].Root.Content) = 3 /\ Len(NowContent) = 1
  /\ built[1].ID # <<>> /\ built[1].Search # <<>>

\* C4 as claimed: a block that satisfies the directive predicate and has no
\* ":" makes extractMeta abort; it is never left in the sequence.
C4_AbortsWithoutColon ==
  (runs >= 1 /\ \E b \in Range(EntryContent) : NoColonBlock(b)) => status = "panic"

\* C4 as amended: a block that satisfies the directive predicate and has no
\* ":" is no directive: it stays in the sequence, where it was among such
\* blocks, and extractMeta aborts only for a key of a block with a ":".
C4_NoColonIsContent ==
  runs >= 1 =>
    /\ status = "running" =>
         SelectSeq(NowContent, NoColonBlock) = SelectSeq(EntryContent, NoColonBlock)
    /\ status = "panic" =>
         /\ panicMsg.kind = "unknown key"
         /\ \E b \in Range(EntryContent) :
              /\ DirectiveBlock(b)
              /\ panicMsg.a = ToLower(TrimSpace(SplitN2(TrimSpace(b.InlineContent[1].Text), ":")[1]))
         /\ \A i \in DOMAIN EntryContent :
              NoColonBlock(EntryContent[i]) => NowContent[i] = EntryContent[i]

\* extractMeta has completed on a sequence with a directive and a block
\* without ":" and has left that block as content
C4_Witness ==
  /\ runs = 1 /\ status = "running"
  /\ \E b \in Range(EntryContent) : DirectiveBlock(b)
  /\ \E b \in Range(EntryContent) : NoColonBlock(b)
  /\ \E b \in Range(NowContent) : NoColonBlock(b)

KeyOf(b) == ToLower(TrimSpace(SplitN2(TrimSpace(b.InlineContent[1].Text), ":")[1]))
ValueOf(b) == TrimSpace(SplitN2(TrimSpace(b.InlineContent[1].Text), ":")[2])
UnknownKeyAt(content) ==
  {i \in DOMAIN content :
     DirectiveBlock(content[i])
       /\ KeyOf(content[i]) \notin {KeyId, KeySoid, KeySearch, KeyScore}}
\* the value of the last directive with key `key` among the first n blocks,
\* or `was` when there is none
LastValue(content, n, key, was) ==
  LET at == {i \in 1..n : DirectiveBlock(content[i]) /\ KeyOf(content[i]) = key}
  IN IF at = {} THEN was ELSE ValueOf(content[Max(at)])

\* C9: a directive whose key is none of $id, $soid, $search, $score makes
\* extractMeta abort at once with an error that names the key and the
\* normalized identifier of the page: the blocks after it are not touched
\* and the Page holds what the directives before it set, and nothing else.
C9_UnknownKeyAborts ==
  (runs >= 1 /\ UnknownKeyAt(EntryContent) # {}) =>
    LET j == Min(UnknownKeyAt(EntryContent))
    IN /\ status = "panic"
       /\ panicMsg = Panic("unknown key", KeyOf(EntryContent[j]), N1)
       /\ Len(NowContent) = Len(EntryContent)
       /\ \A i \in DOMAIN EntryContent : i > j => NowContent[i] = EntryContent[i]
       /\ built[1].ID = LastValue(EntryContent, j - 1, KeyId, prev.p.ID)
       /\ built[1].StackOverflowID =
            LastValue(EntryContent, j - 1, KeySoid, prev.p.StackOverflowID)
       /\ (LastValue(EntryContent, j - 1, KeySearch, <<"-">>) = <<"-">>)
            => built[1].Search = prev.p.Search

\* extractMeta has aborted at an unknown key between two $id directives: ID
\* is the value of the first one
C9_Witness ==
  /\ runs = 1 /\ status = "panic"
  /\ Len(EntryContent) = 3
  /\ UnknownKeyAt(EntryContent) = {2}
  /\ KeyOf(EntryContent[1]) = KeyId /\ DirectiveBlock(EntryContent[1])
  /\ KeyOf(EntryContent[3]) = KeyId /\ DirectiveBlock(EntryContent[3])
  /\ ValueOf(EntryContent[1]) # ValueOf(EntryContent[3])
  /\ built[1].ID = ValueOf(EntryContent[1])

\* the embed display sources whose decoding fails at one of the steps
DecodeFails(uri) ==
  \/ ~uri.valid
  \/ uri.host \notin {"www.onlinetool.io", "onlinetool.io"}
  \/ uri.path # WidgetPath
  \/ ~uri.url.valid
  \/ uri.url.host # "github.com"
  \/ ~HasPrefix(uri.url.path, RepoPrefix)

\* C5: an embed whose display source fails a step of the decoding is still
\* recorded, with FileExists false and an empty FileName and Path, and the
\* traversal goes on to the next block without aborting.
C5_FailedDecodeRecorded ==
  runs >= 1 =>
    LET embeds == SelectSeq(EntryContent, IsEmbed)
    IN /\ status # "panic"
       /\ Len(built[1].SourceFiles) = Len(embeds)
       /\ \A i \in DOMAIN embeds :
            DecodeFails(embeds[i].DisplaySource) =>
              built[1].SourceFiles[i] =
                SourceFile(embeds[i].DisplaySource, <<>>, <<>>, <<>>, FALSE)

====
